---------------------------- MODULE Spec2Model ----------------------------
(***************************************************************************)
(* Model of src/main.mts: the Uniswap v3 pool tag module.                  *)
(*                                                                         *)
(* One invocation of returnTags(chainId, apiKey) is a state machine whose  *)
(* steps are the synchronous runs of the code between two awaits:          *)
(*   Call          the call up to the first `await fetch(...)`             *)
(*   FetchRejects  the promise of fetch() rejects                          *)
(*   FetchResponds the promise of fetch() resolves with a status           *)
(*   JsonRejects   the promise of response.json() rejects                  *)
(*   JsonResolves  the promise of response.json() resolves with a body     *)
(* Spec explores pool tables, SpecChains chain identifiers and API keys,   *)
(* and SpecTransform a call of transformPoolsToTags on its own.            *)
(*                                                                         *)
(* Strings.  A string is a sequence of fragments whose concatenation is    *)
(* the JavaScript string.  Token names, token symbols, chain identifiers,  *)
(* API keys and everything whose length or characters the code inspects    *)
(* are sequences of single characters, so that Len is `.length` and SubSeq *)
(* is `.substring`.  Fixed literals that are only ever concatenated        *)
(* (messages, URL parts) are one fragment each.                            *)
(***************************************************************************)
EXTENDS Integers, Sequences, FiniteSets, TLC

VARIABLES
    chainId,        \* argument of returnTags (characters)
    apiKey,         \* argument of returnTags (characters)
    created,        \* the subgraph's pool table: created[t] pools have createdAtTimestamp t
    pc,             \* position of the invocation
    url,            \* const url (line 222)
    lastTimestamp,  \* let lastTimestamp (line 218)
    allTags,        \* let allTags (line 219)
    isMore,         \* let isMore (line 220)
    requests,       \* every POST issued so far, in order (body.variables.lastTimestamp and url)
    responses,      \* what came back for each request, in order (summaries)
    fetched,        \* ids of the pools of every page fetchData returned, concatenated
    fetchResult,    \* how the latest fetchData call ended
    logs,           \* console output, in order
    outcome,        \* how the promise of returnTags settled
    tfPools,        \* transformPoolsToTags alone: its pools argument
    tfResult        \* transformPoolsToTags alone: what it returned and logged

vars == <<chainId, apiKey, created, pc, url, lastTimestamp, allTags, isMore,
          requests, responses, fetched, fetchResult, logs, outcome, tfPools, tfResult>>

---------------------------------------------------------------------------
(* Bounds of the model *)

\* Largest createdAtTimestamp of the subgraph's pool table.
MaxTs == 2
\* Number of requests of one invocation the model follows: an invocation
\* that needs one more is left running at pc = "beyondMaxRequests", which the
\* code as written never reaches with the tables explored.
MaxRequests == 4
\* Longest pools argument given to transformPoolsToTags alone.
MaxPools == 2

---------------------------------------------------------------------------
(* Text helpers *)

Rep(c, n) == [i \in 1..n |-> c]

Min(a, b) == IF a < b THEN a ELSE b

DigitChars == <<"0", "1", "2", "3", "4", "5", "6", "7", "8", "9">>

IsDigit(c) == \E d \in 1..10 : DigitChars[d] = c

DigitValue(c) == (CHOOSE d \in 1..10 : DigitChars[d] = c) - 1

\* Number.prototype.toString() of a non-negative integer: its decimal digits.
RECURSIVE NumberToString(_)
NumberToString(n) ==
    IF n < 10 THEN <<DigitChars[n + 1]>>
    ELSE NumberToString(n \div 10) \o <<DigitChars[(n % 10) + 1]>>

\* parseInt(text, 10): the value of the longest prefix of decimal digits (the
\* texts parsed here all begin with a digit, so the result is never NaN).
RECURSIVE ParseDigits(_, _)
ParseDigits(text, acc) ==
    IF text = <<>> \/ ~IsDigit(Head(text)) THEN acc
    ELSE ParseDigits(Tail(text), acc * 10 + DigitValue(Head(text)))

parseInt(text) == ParseDigits(text, 0)

\* Array.prototype.join
RECURSIVE Join(_, _)
Join(texts, sep) ==
    IF texts = <<>> THEN <<>>
    ELSE IF Len(texts) = 1 THEN texts[1]
    ELSE texts[1] \o sep \o Join(Tail(texts), sep)

---------------------------------------------------------------------------
(* URL resolver: SUBGRAPH_URLS, isNaN(Number(chainId)), prepareUrl *)

Chars_1 == <<"1">>
Chars_137 == <<"1", "3", "7">>
Chars_10 == <<"1", "0">>
Chars_42220 == <<"4", "2", "2", "2", "0">>

\* The object literal, its properties in source order.  The deployment ids are
\* abbreviated to their first characters.
SUBGRAPH_URLS ==
    << [key |-> Chars_1,
        decentralized |-> <<"https://gateway-arbitrum.network.thegraph.com/api/",
                            "[api-key]", "/deployments/id/QmZeCuoZ">>],
       [key |-> Chars_137,
        decentralized |-> <<"https://gateway-arbitrum.network.thegraph.com/api/",
                            "[api-key]", "/deployments/id/QmdAaDAU">>],
       [key |-> Chars_10,
        decentralized |-> <<"https://gateway-arbitrum.network.thegraph.com/api/",
                            "[api-key]", "/deployments/id/QmbTaWMF">>],
       [key |-> Chars_42220,
        decentralized |-> <<"https://gateway-arbitrum.network.thegraph.com/api/",
                            "[api-key]", "/deployments/id/QmXfJmxY">>] >>

\* Property names every object literal inherits from Object.prototype: reading
\* SUBGRAPH_URLS[name] for one of them yields a function or an object, which is
\* truthy and has no `decentralized`.
ObjectPrototypeKeys ==
    { <<"c", "o", "n", "s", "t", "r", "u", "c", "t", "o", "r">>,
      <<"t", "o", "S", "t", "r", "i", "n", "g">>,
      <<"v", "a", "l", "u", "e", "O", "f">>,
      <<"_", "_", "p", "r", "o", "t", "o", "_", "_">> }

\* SUBGRAPH_URLS[chainId]
LookupUrls(id) ==
    IF \E i \in 1..Len(SUBGRAPH_URLS) : SUBGRAPH_URLS[i].key = id
    THEN LET i == CHOOSE k \in 1..Len(SUBGRAPH_URLS) : SUBGRAPH_URLS[k].key = id
         IN [truthy |-> TRUE, own |-> TRUE,
             decentralized |-> SUBGRAPH_URLS[i].decentralized]
    ELSE IF id \in ObjectPrototypeKeys
    THEN [truthy |-> TRUE, own |-> FALSE, decentralized |-> <<>>]
    ELSE [truthy |-> FALSE, own |-> FALSE, decentralized |-> <<>>]

\* Object.keys(SUBGRAPH_URLS): integer-like keys come first in ascending
\* numeric order, whatever the order of the literal.
RECURSIVE SortByNumber(_)
SortByNumber(keys) ==
    IF keys = {} THEN <<>>
    ELSE LET least == CHOOSE k \in keys : \A o \in keys : parseInt(k) <= parseInt(o)
         IN <<least>> \o SortByNumber(keys \ {least})

ObjectKeys == SortByNumber({SUBGRAPH_URLS[i].key : i \in 1..Len(SUBGRAPH_URLS)})

\* String.prototype.trim (spaces are the only white space of the inputs).
RECURSIVE TrimLeft(_)
TrimLeft(text) ==
    IF text # <<>> /\ Head(text) = " " THEN TrimLeft(Tail(text)) ELSE text

RECURSIVE TrimRight(_)
TrimRight(text) ==
    IF text # <<>> /\ text[Len(text)] = " "
    THEN TrimRight(SubSeq(text, 1, Len(text) - 1)) ELSE text

HexChars == {"a", "b", "c", "d", "e", "f", "A", "B", "C", "D", "E", "F"}

\* StringNumericLiteral of ECMAScript, without exponents and "Infinity":
\* an optional sign, digits with at most one dot and at least one digit.
IsDecimalLiteral(text) ==
    LET body == IF text # <<>> /\ Head(text) \in {"+", "-"} THEN Tail(text) ELSE text
    IN /\ \E i \in 1..Len(body) : IsDigit(body[i])
       /\ \A i \in 1..Len(body) : IsDigit(body[i]) \/ body[i] = "."
       /\ Cardinality({i \in 1..Len(body) : body[i] = "."}) <= 1

IsHexLiteral(text) ==
    /\ Len(text) >= 3
    /\ text[1] = "0"
    /\ text[2] \in {"x", "X"}
    /\ \A i \in 3..Len(text) : IsDigit(text[i]) \/ text[i] \in HexChars

\* isNaN(Number(text)): Number of the empty or blank string is 0.
NumberIsNaN(text) ==
    LET t == TrimRight(TrimLeft(text))
    IN ~(t = <<>> \/ IsDecimalLiteral(t) \/ IsHexLiteral(t))

\* Characters encodeURIComponent leaves alone, among those of the inputs.
UriUnreserved ==
    {"K", "a", "b", "0", "1", "2", "3", "4", "5", "6", "7", "8", "9",
     "-", "_", ".", "!", "~", "*", "'", "(", ")"}

\* The %XX escapes of the other characters of the inputs.
PercentEscape(c) ==
    CASE c = " " -> <<"%", "2", "0">>
      [] c = "/" -> <<"%", "2", "F">>
      [] c = "$" -> <<"%", "2", "4">>
      [] c = "&" -> <<"%", "2", "6">>
      [] c = "[" -> <<"%", "5", "B">>
      [] c = "]" -> <<"%", "5", "D">>
      [] OTHER -> <<"%", "3", "F">>

RECURSIVE encodeURIComponent(_)
encodeURIComponent(text) ==
    IF text = <<>> THEN <<>>
    ELSE (IF Head(text) \in UriUnreserved THEN <<Head(text)>>
          ELSE PercentEscape(Head(text)))
         \o encodeURIComponent(Tail(text))

\* String.prototype.replace with a string pattern: the first occurrence only.
\* (The replacement holds no "$", encodeURIComponent escapes it, so none of
\* the replacement patterns of replace applies.)
ReplaceFirst(fragments, pattern, replacement) ==
    IF \E i \in 1..Len(fragments) : fragments[i] = pattern
    THEN LET i == CHOOSE k \in 1..Len(fragments) :
                      /\ fragments[k] = pattern
                      /\ \A j \in 1..(k - 1) : fragments[j] # pattern
         IN SubSeq(fragments, 1, i - 1) \o replacement
            \o SubSeq(fragments, i + 1, Len(fragments))
    ELSE fragments

UnsupportedChainMessage(id) ==
    <<"Unsupported or invalid Chain ID provided: ">> \o id
    \o <<". Only the following values are accepted: ">>
    \o Join(ObjectKeys, <<", ">>)

\* The guard without its isNaN test.
ChainRejectedLookupOnly(id) == ~LookupUrls(id).truthy

\* The guard of prepareUrl (line 127).
ChainRejected(id) == ~LookupUrls(id).truthy \/ NumberIsNaN(id)

\* prepareUrl: [ok |-> TRUE, url] or [ok |-> FALSE, message of the Error thrown].
prepareUrl(id, key) ==
    LET urls == LookupUrls(id)
    IN IF ChainRejected(id)
       THEN [ok |-> FALSE, url |-> <<>>, message |-> UnsupportedChainMessage(id)]
       ELSE [ok |-> TRUE,
             url |-> ReplaceFirst(urls.decentralized, "[api-key]",
                                  encodeURIComponent(key)),
             message |-> <<>>]

---------------------------------------------------------------------------
(* Values that can be thrown, isError, and the text a template gives them *)

\* new Error(message)
NewError(message) ==
    [type |-> "object", isNull |-> FALSE, hasMessage |-> TRUE,
     messageIsString |-> TRUE, message |-> message, isErrorInstance |-> TRUE]

\* What the promises of fetch() and response.json() can reject with: an Error,
\* an object that merely carries a string `message`, an object whose `message`
\* is no string, null, and a string.
ThrownValues ==
    { NewError(<<"request to subgraph failed">>),
      [type |-> "object", isNull |-> FALSE, hasMessage |-> TRUE,
       messageIsString |-> TRUE, message |-> <<"socket hang up">>,
       isErrorInstance |-> FALSE],
      [type |-> "object", isNull |-> FALSE, hasMessage |-> TRUE,
       messageIsString |-> FALSE, message |-> <<>>, isErrorInstance |-> FALSE],
      [type |-> "object", isNull |-> TRUE, hasMessage |-> FALSE,
       messageIsString |-> FALSE, message |-> <<>>, isErrorInstance |-> FALSE],
      [type |-> "string", isNull |-> FALSE, hasMessage |-> FALSE,
       messageIsString |-> FALSE, message |-> <<>>, isErrorInstance |-> FALSE] }

isError(e) ==
    /\ e.type = "object"
    /\ ~e.isNull
    /\ e.hasMessage
    /\ e.messageIsString

\* `${error}` for a value that passed isError: Error.prototype.toString gives
\* "Error: <message>" ("Error" alone for an empty message), Object.prototype
\* .toString gives "[object Object]".
TemplateText(e) ==
    IF e.isErrorInstance
    THEN IF e.message = <<>> THEN <<"Error">> ELSE <<"Error", ": ">> \o e.message
    ELSE <<"[object Object]">>

---------------------------------------------------------------------------
(* Sanitizer / transformer *)

\* /<[^>]*>/.test(text): a "<", then characters other than ">", then a ">".
containsHtmlOrMarkdown(text) ==
    \E i \in 1..Len(text) :
        /\ text[i] = "<"
        /\ \E j \in (i + 1)..Len(text) :
              /\ text[j] = ">"
              /\ \A k \in (i + 1)..(j - 1) : text[k] # ">"

Ellipsis == <<".", ".", ".">>

\* truncateString that leaves no room for the ellipsis.
truncateStringNoRoom(text, maxLength) ==
    IF Len(text) > maxLength
    THEN SubSeq(text, 1, maxLength) \o Ellipsis
    ELSE text

truncateString(text, maxLength) ==
    IF Len(text) > maxLength
    THEN SubSeq(text, 1, maxLength - 3) \o Ellipsis
    ELSE text

maxSymbolsLength == 45

PoolSuffix == <<" ", "P", "o", "o", "l">>

token0Invalid(pool) ==
    containsHtmlOrMarkdown(pool.token0.name) \/ containsHtmlOrMarkdown(pool.token0.symbol)

\* token1Invalid that looks at the name only.
token1InvalidNameOnly(pool) == containsHtmlOrMarkdown(pool.token1.name)

token1Invalid(pool) ==
    containsHtmlOrMarkdown(pool.token1.name) \/ containsHtmlOrMarkdown(pool.token1.symbol)

\* The pools pushed to validPools (line 183).
PoolIsValid(pool) == ~(token0Invalid(pool) \/ token1Invalid(pool))

\* What one pool pushes to rejectedNames (lines 171-181).
RejectedNamesOf(pool) ==
    (IF token0Invalid(pool)
     THEN << pool.token0.name \o <<", Symbol: ">> \o pool.token0.symbol >>
     ELSE <<>>)
    \o (IF token1Invalid(pool)
        THEN << pool.token1.name \o <<", Symbol: ">> \o pool.token1.symbol >>
        ELSE <<>>)

\* rejectedNames after the forEach over pools[lo..hi], in order.
RECURSIVE RejectedNames(_, _, _)
RejectedNames(pools, lo, hi) ==
    IF lo > hi THEN <<>>
    ELSE IF lo = hi THEN RejectedNamesOf(pools[lo])
    ELSE LET mid == (lo + hi) \div 2
         IN RejectedNames(pools, lo, mid) \o RejectedNames(pools, mid + 1, hi)

\* The record built for one valid pool (lines 196-207).  The keys of the
\* ContractTag are "Contract Address", "Public Name Tag", "Project Name",
\* "UI/Website Link" and "Public Note".
TagOfPool(id, pool) ==
    LET symbolsText == pool.token0.symbol \o <<"/">> \o pool.token1.symbol
        truncatedSymbolsText == truncateString(symbolsText, maxSymbolsLength)
    IN [contractAddress |-> <<"eip155:">> \o id \o <<":", pool.id>>,
        publicNameTag |-> truncatedSymbolsText \o PoolSuffix,
        projectName |-> "Uniswap v3",
        uiWebsiteLink |-> "https://uniswap.org",
        publicNote |-> <<"The liquidity pool contract on Uniswap v3 for the ">>
                       \o pool.token0.name \o <<" (">> \o pool.token0.symbol
                       \o <<") / ">> \o pool.token1.name \o <<" (">>
                       \o pool.token1.symbol \o <<") pair.">>]

\* transformPoolsToTags: the tags returned and the lines written to the console.
transformPoolsToTags(id, pools) ==
    LET validPools == SelectSeq(pools, PoolIsValid)
        rejectedNames == RejectedNames(pools, 1, Len(pools))
    IN [tags |-> [i \in 1..Len(validPools) |-> TagOfPool(id, validPools[i])],
        logs |-> IF Len(rejectedNames) > 0
                 THEN << [level |-> "log",
                          text |-> <<"Rejected token names due to HTML/Markdown content:">>,
                          args |-> rejectedNames] >>
                 ELSE <<>>]

---------------------------------------------------------------------------
(* The subgraph: its pool table and how it answers GET_POOLS_QUERY *)

\* How many pools may share one creation timestamp in the tables explored.
CountChoices == {0, 1, 999, 1000, 1001}

\* The pool tables explored: created[t] is the number of pools created at t.
\* Timestamp 0 holds at most one pool.
PoolTables == {f \in [0..MaxTs -> CountChoices] : f[0] <= 1}

EmptyTable == [t \in 0..MaxTs |-> 0]

\* Number of pools of the table created at or before c.
RECURSIVE CreatedUpTo(_, _)
CreatedUpTo(table, c) ==
    IF c < 0 THEN 0
    ELSE IF c > MaxTs THEN CreatedUpTo(table, MaxTs)
    ELSE table[c] + CreatedUpTo(table, c - 1)

TableSize(table) == CreatedUpTo(table, MaxTs)

\* The tokens of the table's pools.
TokenA == [id |-> "0xa", name |-> <<"A", "a">>, symbol |-> <<"A">>]
TokenW == [id |-> "0xw", name |-> <<"W", "w">>, symbol |-> <<"W">>]
TokenMarkupName == [id |-> "0xb", name |-> <<"<", "b", ">">>, symbol |-> <<"B">>]
TokenMarkupSymbol == [id |-> "0xc", name |-> <<"C">>, symbol |-> <<"<", "/", ">">>]

\* The i-th pool of the table in the subgraph's order: ascending creation
\* timestamp, pools of one timestamp in a fixed order.
TablePool(table, i) ==
    [id |-> "0x" \o ToString(i),
     createdAtTimestamp |-> CHOOSE t \in 0..MaxTs :
                               /\ CreatedUpTo(table, t) >= i
                               /\ CreatedUpTo(table, t - 1) < i,
     token0 |-> IF i % 10 = 3 THEN TokenMarkupName ELSE TokenA,
     token1 |-> IF i % 25 = 7 THEN TokenMarkupSymbol ELSE TokenW]

\* The query with an inclusive filter.
GetPoolsQueryGte ==
    [first |-> 1000,
     orderBy |-> "createdAtTimestamp",
     orderDirection |-> "asc",
     where |-> "createdAtTimestamp_gte"]

\* The query in descending order.
GetPoolsQueryDesc ==
    [first |-> 1000,
     orderBy |-> "createdAtTimestamp",
     orderDirection |-> "desc",
     where |-> "createdAtTimestamp_gt"]

GET_POOLS_QUERY ==
    [first |-> 1000,
     orderBy |-> "createdAtTimestamp",
     orderDirection |-> "asc",
     where |-> "createdAtTimestamp_gt"]

\* The pools the subgraph returns for a query and its $lastTimestamp: the
\* first `first` pools, in ascending creation order, that pass the filter.
SubgraphPools(table, query, cursor) ==
    LET skipped == IF query.where = "createdAtTimestamp_gt"
                   THEN CreatedUpTo(table, cursor)
                   ELSE CreatedUpTo(table, cursor - 1)
        size == Min(query.first, TableSize(table) - skipped)
    IN IF query.orderDirection = "asc"
       THEN [k \in 1..size |-> TablePool(table, skipped + k)]
       ELSE [k \in 1..size |-> TablePool(table, TableSize(table) + 1 - k)]

---------------------------------------------------------------------------
(* fetchData *)

Statuses == {200, 404, 500}

\* response.ok
ResponseOk(status) == status >= 200 /\ status <= 299

HttpError(status) == NewError(<<"HTTP error: ">> \o NumberToString(status))

GraphQLErrors == NewError(<<"GraphQL errors occurred: see logs for details.">>)

NoPoolsData == NewError(<<"No pools data found.">>)

\* The bodies response.json() can resolve with, for a page of pools the
\* subgraph holds ready: with or without an errors array (empty or not), with
\* or without data, with or without data.pools.
Bodies(page) ==
    LET twoErrors == << [message |-> <<"bad indexer">>], [message |-> <<"timeout">>] >>
        Body(hasErrors, errors, hasData, hasPools) ==
            [hasErrors |-> hasErrors, errors |-> errors, hasData |-> hasData,
             hasPools |-> hasPools, pools |-> IF hasPools THEN page ELSE <<>>]
    IN { Body(FALSE, <<>>, TRUE, TRUE),
         Body(TRUE, <<>>, TRUE, TRUE),
         Body(TRUE, twoErrors, TRUE, TRUE),
         Body(TRUE, twoErrors, FALSE, FALSE),
         Body(FALSE, <<>>, FALSE, FALSE),
         Body(FALSE, <<>>, TRUE, FALSE) }

\* The test of the errors array that takes an empty array for no errors.
ErrorsTruthyNonEmpty(result) == result.hasErrors /\ Len(result.errors) > 0

\* `if (result.errors)`: an array is truthy, empty or not.
ErrorsTruthy(result) == result.hasErrors

\* `!result.data || !result.data.pools`
DataMissing(result) == ~result.hasData \/ ~result.hasPools

\* fetchData from the parsed body on (lines 110-122): what it returns or
\* throws, and the lines it writes to the console.
fetchDataResult(result) ==
    IF ErrorsTruthy(result)
    THEN [threw |-> TRUE, error |-> GraphQLErrors, pools |-> <<>>,
          logs |-> [i \in 1..Len(result.errors) |->
                      [level |-> "error",
                       text |-> <<"GraphQL error: ">> \o result.errors[i].message,
                       args |-> <<>>]]]
    ELSE IF DataMissing(result)
    THEN [threw |-> TRUE, error |-> NoPoolsData, pools |-> <<>>, logs |-> <<>>]
    ELSE [threw |-> FALSE, error |-> NoPoolsData, pools |-> result.pools, logs |-> <<>>]

---------------------------------------------------------------------------
(* returnTags *)

FullPage == 1000

\* isMore that goes on after any page that holds a pool.
IsMoreOfAnyPool(pools) == Len(pools) > 0

\* isMore = pools.length === 1000 (line 229)
IsMoreOf(pools) == Len(pools) = FullPage

\* The cursor moved one past the last pool's timestamp.
NextTimestampPlusOne(pools) ==
    parseInt(NumberToString(pools[Len(pools)].createdAtTimestamp)) + 1

\* parseInt(pools[pools.length - 1].createdAtTimestamp.toString(), 10) (lines 231-234)
NextTimestamp(pools) ==
    parseInt(NumberToString(pools[Len(pools)].createdAtTimestamp))

\* A catch block that logs and then returns what was accumulated.
CatchBlockPartial(error, tagsSoFar) ==
    [log |-> [level |-> "error",
              text |-> <<"An error occurred: ">> \o error.message,
              args |-> <<>>],
     outcome |-> [kind |-> "resolved", tags |-> tagsSoFar, message |-> <<>>]]

\* A catch block that logs and rethrows the value it caught.
CatchBlockRethrow(error, tagsSoFar) ==
    [log |-> [level |-> "error",
              text |-> <<"An error occurred: ">> \o error.message,
              args |-> <<>>],
     outcome |-> [kind |-> "rejected", tags |-> <<>>, message |-> error.message]]

\* The catch block (lines 236-244): the line it logs and how the promise of
\* returnTags settles.  tagsSoFar is allTags, which the block does not use.
CatchBlock(error, tagsSoFar) ==
    IF isError(error)
    THEN [log |-> [level |-> "error",
                   text |-> <<"An error occurred: ">> \o error.message,
                   args |-> <<>>],
          outcome |-> [kind |-> "rejected", tags |-> <<>>,
                       message |-> <<"Failed fetching data: ">> \o TemplateText(error)]]
    ELSE [log |-> [level |-> "error",
                   text |-> <<"An unknown error occurred.">>,
                   args |-> <<>>],
          outcome |-> [kind |-> "rejected", tags |-> <<>>,
                       message |-> <<"An unknown error occurred during fetch operation.">>]]

Pending == [kind |-> "pending", tags |-> <<>>, message |-> <<>>]

NoError == [type |-> "undefined", isNull |-> FALSE, hasMessage |-> FALSE,
            messageIsString |-> FALSE, message |-> <<>>, isErrorInstance |-> FALSE]

NoFetch == [kind |-> "none", size |-> 0, error |-> NoError]

InitialTimestamp == 0

\* The POST of fetchData (lines 97-104).
Request(u, cursor) == [url |-> u, query |-> GET_POOLS_QUERY, lastTimestamp |-> cursor]

\* What is recorded of a response: how fetch() settled, the status, how
\* json() settled and the shape of the body.
Summary(fetchState, status, jsonState, body) ==
    [fetch |-> fetchState, status |-> status, json |-> jsonState,
     hasErrors |-> body.hasErrors,
     errorMessages |-> [i \in 1..Len(body.errors) |-> body.errors[i].message],
     hasData |-> body.hasData, hasPools |-> body.hasPools,
     size |-> Len(body.pools),
     lastCreated |-> IF Len(body.pools) > 0
                     THEN body.pools[Len(body.pools)].createdAtTimestamp ELSE 0]

NoBody == [hasErrors |-> FALSE, errors |-> <<>>, hasData |-> FALSE,
           hasPools |-> FALSE, pools |-> <<>>]

\* What json() rejects with when the body is no JSON.
JsonFailures == { NewError(<<"invalid json response body">>) }

\* The inputs explored with the pool tables: a supported chain and an
\* unsupported one, one API key.
PagingChainIds == { Chars_1, <<"5">> }

PagingApiKey == <<"K", "1">>

InitCommon ==
    /\ pc = "start"
    /\ url = <<>>
    /\ lastTimestamp = InitialTimestamp
    /\ allTags = <<>>
    /\ isMore = TRUE
    /\ requests = <<>>
    /\ responses = <<>>
    /\ fetched = <<>>
    /\ fetchResult = NoFetch
    /\ logs = <<>>
    /\ outcome = Pending
    /\ tfResult = [tags |-> <<>>, logs |-> <<>>]

Init ==
    /\ chainId \in PagingChainIds
    /\ apiKey = PagingApiKey
    /\ created \in PoolTables
    /\ InitCommon
    /\ tfPools = <<>>

\* The catch block is reached with `error`; fetchData wrote fetchLogs before
\* it threw; the response is recorded as newResponses.
Fail(error, fetchLogs, newResponses) ==
    LET c == CatchBlock(error, allTags)
    IN /\ logs' = logs \o fetchLogs \o <<c.log>>
       /\ outcome' = c.outcome
       /\ pc' = c.outcome.kind
       /\ fetchResult' = [kind |-> "throw", size |-> 0, error |-> error]
       /\ responses' = newResponses
       /\ UNCHANGED <<chainId, apiKey, created, url, lastTimestamp, allTags, isMore,
                      requests, fetched, tfPools, tfResult>>

\* returnTags is called: lines 218-226, up to the first `await fetch(...)`.
\* prepareUrl runs outside the try block, so what it throws rejects the
\* promise as it is.
Call ==
    /\ pc = "start"
    /\ LET r == prepareUrl(chainId, apiKey)
       IN IF ~r.ok
          THEN /\ pc' = "rejected"
               /\ outcome' = [kind |-> "rejected", tags |-> <<>>, message |-> r.message]
               /\ UNCHANGED <<url, requests>>
          ELSE /\ pc' = "awaitFetch"
               /\ url' = r.url
               /\ requests' = <<Request(r.url, InitialTimestamp)>>
               /\ UNCHANGED outcome
    /\ lastTimestamp' = InitialTimestamp
    /\ allTags' = <<>>
    /\ isMore' = TRUE
    /\ UNCHANGED <<chainId, apiKey, created, responses, fetched, fetchResult, logs,
                   tfPools, tfResult>>

\* The promise of fetch() rejects: fetchData rethrows, the catch block runs.
FetchRejects ==
    /\ pc = "awaitFetch"
    /\ \E e \in ThrownValues :
          Fail(e, <<>>, Append(responses, Summary("rejected", 0, "unread", NoBody)))

\* The promise of fetch() resolves with a response: line 106, and for a
\* response that is ok the call of response.json().
FetchResponds ==
    /\ pc = "awaitFetch"
    /\ \E status \in Statuses :
          LET seen == Append(responses, Summary("responded", status, "unread", NoBody))
          IN IF ~ResponseOk(status)
             THEN Fail(HttpError(status), <<>>, seen)
             ELSE /\ pc' = "awaitJson"
                  /\ responses' = seen
                  /\ UNCHANGED <<chainId, apiKey, created, url, lastTimestamp, allTags,
                                 isMore, requests, fetched, fetchResult, logs, outcome,
                                 tfPools, tfResult>>

\* The promise of response.json() rejects.
JsonRejects ==
    /\ pc = "awaitJson"
    /\ \E e \in JsonFailures :
          Fail(e, <<>>,
               [responses EXCEPT ![Len(responses)] =
                   Summary("responded", @.status, "rejected", NoBody)])

\* The promise of response.json() resolves: lines 110-122 of fetchData, then
\* lines 227-235 and either the next fetch, the return or the catch block.
JsonResolves ==
    /\ pc = "awaitJson"
    /\ LET request == requests[Len(requests)]
           page == SubgraphPools(created, request.query, request.lastTimestamp)
       IN \E body \in Bodies(page) :
             LET r == fetchDataResult(body)
                 seen == [responses EXCEPT ![Len(responses)] =
                             Summary("responded", @.status, "parsed", body)]
             IN IF r.threw
                THEN Fail(r.error, r.logs, seen)
                ELSE LET t == transformPoolsToTags(chainId, r.pools)
                         tags == allTags \o t.tags
                         more == IsMoreOf(r.pools)
                     IN /\ allTags' = tags
                        /\ isMore' = more
                        /\ logs' = logs \o t.logs
                        /\ responses' = seen
                        /\ fetched' = fetched \o [i \in 1..Len(r.pools) |-> r.pools[i].id]
                        /\ fetchResult' = [kind |-> "pools", size |-> Len(r.pools),
                                           error |-> NoError]
                        /\ IF more
                           THEN /\ lastTimestamp' = NextTimestamp(r.pools)
                                /\ IF Len(requests) < MaxRequests
                                   THEN /\ requests' = Append(requests,
                                                  Request(url, NextTimestamp(r.pools)))
                                        /\ pc' = "awaitFetch"
                                   ELSE /\ pc' = "beyondMaxRequests"
                                        /\ UNCHANGED requests
                                /\ UNCHANGED outcome
                           ELSE /\ pc' = "resolved"
                                /\ outcome' = [kind |-> "resolved", tags |-> tags,
                                               message |-> <<>>]
                                /\ UNCHANGED <<lastTimestamp, requests>>
                        /\ UNCHANGED <<chainId, apiKey, created, url, tfPools, tfResult>>

Next == Call \/ FetchRejects \/ FetchResponds \/ JsonRejects \/ JsonResolves

Spec == Init /\ [][Next]_vars

\* Every request is answered and the code runs on after each await.
FairSpec == Spec /\ WF_vars(Next)

---------------------------------------------------------------------------
(* URL resolution over many chain identifiers and API keys *)

\* The four supported identifiers, and identifiers outside the table: other
\* numbers, the empty string, other spellings of 1, words, and names that
\* Object.prototype defines.
ChainIds ==
    { Chars_1, Chars_137, Chars_10, Chars_42220,
      <<"5">>, <<"5", "6">>, <<>>, <<"a", "b", "c">>, <<"N", "a", "N">>,
      <<"0", "x", "1">>, <<"1", ".", "0">>, <<" ", "1">>, <<"0", "1">>,
      <<"c", "o", "n", "s", "t", "r", "u", "c", "t", "o", "r">>,
      <<"t", "o", "S", "t", "r", "i", "n", "g">>,
      <<"_", "_", "p", "r", "o", "t", "o", "_", "_">> }

ApiKeys == { <<"K", "1">>, <<"a", " ", "b">>, <<"$", "&", "/">>, <<>> }

\* One pool at every timestamp.
OnePoolEach == [t \in 0..MaxTs |-> 1]

InitChains ==
    /\ chainId \in ChainIds
    /\ apiKey \in ApiKeys
    /\ created = OnePoolEach
    /\ InitCommon
    /\ tfPools = <<>>

SpecChains == InitChains /\ [][Next]_vars

---------------------------------------------------------------------------
(* transformPoolsToTags alone, over pools with richer token texts *)

TokenReversed == [id |-> "0xd", name |-> <<">", "<">>, symbol |-> <<"<", "b">>]
TokenLong22 == [id |-> "0xe", name |-> <<"L">>, symbol |-> Rep("x", 22)]
TokenLong23 == [id |-> "0xf", name |-> <<"M">>, symbol |-> Rep("y", 23)]

TransformTokens ==
    { TokenA, TokenMarkupName, TokenMarkupSymbol, TokenReversed, TokenLong22, TokenLong23 }

\* The pools arguments explored: up to MaxPools pools, each pairing any two of
\* the tokens; the i-th pool has its own id.
InitTransform ==
    /\ chainId = Chars_42220
    /\ apiKey = PagingApiKey
    /\ created = EmptyTable
    /\ InitCommon
    /\ \E n \in 0..MaxPools :
          \E pair \in [1..n -> TransformTokens \X TransformTokens] :
             tfPools = [i \in 1..n |->
                          [id |-> "0x" \o ToString(i), createdAtTimestamp |-> i,
                           token0 |-> pair[i][1], token1 |-> pair[i][2]]]

\* transformPoolsToTags(chainId, tfPools) is called and returns.
Transform ==
    /\ pc = "start"
    /\ pc' = "transformed"
    /\ tfResult' = transformPoolsToTags(chainId, tfPools)
    /\ UNCHANGED <<chainId, apiKey, created, url, lastTimestamp, allTags, isMore,
                   requests, responses, fetched, fetchResult, logs, outcome, tfPools>>

NextTransform == Transform

SpecTransform == InitTransform /\ [][NextTransform]_vars

---------------------------------------------------------------------------
(* Properties *)

\* A response with which the fetch of a page fails: fetch() or json()
\* rejected, the status is outside 200..299, the body carries errors, or it
\* lacks data or data.pools.
FailedResponse(r) ==
    \/ r.fetch = "rejected"
    \/ r.status < 200
    \/ r.status > 299
    \/ r.json = "rejected"
    \/ r.json = "parsed" /\ (r.hasErrors \/ ~r.hasData \/ ~r.hasPools)

\* A response that delivered a page of pools.
PageResponse(r) ==
    /\ r.fetch = "responded"
    /\ r.status >= 200
    /\ r.status <= 299
    /\ r.json = "parsed"
    /\ ~r.hasErrors
    /\ r.hasData
    /\ r.hasPools

SomeResponseFailed == \E k \in 1..Len(responses) : FailedResponse(responses[k])

\* C1: returnTags never yields a partial result.  Once the fetch of any page
\* has failed the promise is rejected and carries no tag, whatever was
\* accumulated from the pages before; and the promise resolves with tags only
\* when every response delivered a page, every page but the last was full
\* and the last one was short.
C1_NoPartialResult ==
    /\ SomeResponseFailed => outcome.kind = "rejected" /\ outcome.tags = <<>>
    /\ outcome.kind = "rejected" => outcome.tags = <<>>
    /\ outcome.kind = "resolved" =>
          /\ Len(responses) >= 1
          /\ \A k \in 1..Len(responses) : PageResponse(responses[k])
          /\ \A k \in 1..(Len(responses) - 1) : responses[k].size = 1000
          /\ responses[Len(responses)].size # 1000
          /\ outcome.tags = allTags

\* C1's case: the second or a later page fails after tags were accumulated,
\* and the caller gets none of them.
C1_Witness ==
    /\ pc = "rejected"
    /\ Len(responses) >= 2
    /\ FailedResponse(responses[Len(responses)])
    /\ Len(allTags) > 0
    /\ outcome.tags = <<>>

\* C2: requests are issued one after another until the first page whose size
\* is not 1000 and none after it.  The first request carries cursor 0,
\* request n+1 is issued only after page n came back full and carries the
\* createdAtTimestamp of the last pool of page n, a full page is always
\* followed by a request, and on return the number of requests is the index
\* of the first page with fewer than 1000 pools.
C2_RequestSequence ==
    /\ pc # "start" /\ requests # <<>> => requests[1].lastTimestamp = 0
    /\ Len(requests) \in {Len(responses), Len(responses) + 1}
    /\ \A n \in 1..(Len(requests) - 1) :
          /\ PageResponse(responses[n])
          /\ responses[n].size = 1000
          /\ requests[n + 1].lastTimestamp = responses[n].lastCreated
          /\ requests[n + 1].url = requests[n].url
    /\ (/\ responses # <<>>
        /\ Len(requests) = Len(responses)
        /\ PageResponse(responses[Len(responses)]))
       => responses[Len(responses)].size < 1000 /\ pc = "resolved"
    /\ pc = "resolved" =>
          /\ Len(requests) = Len(responses)
          /\ responses[Len(requests)].size < 1000
          /\ \A k \in 1..(Len(requests) - 1) : responses[k].size >= 1000

\* C2's case: pages of 1000, 1000 and fewer than 1000 pools gave exactly three
\* requests.
C2_Witness ==
    /\ pc = "resolved"
    /\ Len(requests) = 3
    /\ responses[1].size = 1000
    /\ responses[2].size = 1000
    /\ responses[3].size < 1000
    /\ requests[2].lastTimestamp = 1
    /\ requests[3].lastTimestamp = 2

\* The pools of the table with createdAtTimestamp > 0, in ascending creation
\* order.
PositivePools ==
    [i \in 1..(TableSize(created) - created[0]) |-> TablePool(created, created[0] + i)]

\* Page k was full and the table holds a pool outside the pages 1..k with the
\* createdAtTimestamp of the last pool of page k: a timestamp is shared across
\* the boundary after page k.
BoundaryShared(k) ==
    /\ PageResponse(responses[k])
    /\ responses[k].size = 1000
    /\ CreatedUpTo(created, responses[k].lastCreated)
          > CreatedUpTo(created, requests[k].lastTimestamp) + 1000

NoSharedBoundary == \A k \in 1..Len(responses) : ~BoundaryShared(k)

\* C3: against a subgraph that answers with the first 1000 pools after the
\* cursor in ascending creation order, and when no timestamp is shared across
\* a page boundary, the concatenation of the fetched pages is the list of all
\* pools with createdAtTimestamp > 0, each once, in ascending creation order,
\* and the returned tags are the tags of that list in that order.
C3_CompleteInOrder ==
    (pc = "resolved" /\ NoSharedBoundary) =>
        LET pools == PositivePools
            kept == SelectSeq(pools, PoolIsValid)
        IN /\ fetched = [i \in 1..Len(pools) |-> pools[i].id]
           /\ outcome.tags = [i \in 1..Len(kept) |-> TagOfPool(chainId, kept[i])]

\* C3's case: several pages were fetched, none ending inside a timestamp, and
\* the invocation returned.
C3_Witness ==
    /\ pc = "resolved"
    /\ NoSharedBoundary
    /\ Len(responses) >= 2
    /\ responses[Len(responses)].size > 0
    /\ created[0] > 0

\* Every pool of the table with createdAtTimestamp > 0 is in a fetched page.
AllPositiveFetched ==
    LET pools == PositivePools
        fetchedIds == {fetched[i] : i \in 1..Len(fetched)}
    IN \A i \in 1..Len(pools) : pools[i].id \in fetchedIds

\* C9 as stated: whenever no creation timestamp is shared by more than 999
\* pools every pool with createdAtTimestamp > 0 is fetched, and a pool is
\* skipped only when more than 1000 pools share one timestamp.
C9_AsStated ==
    pc = "resolved" =>
        /\ (\A t \in 0..MaxTs : created[t] <= 999) => AllPositiveFetched
        /\ ~AllPositiveFetched => \E t \in 0..MaxTs : created[t] > 1000

\* C9, amended: on return, every pool with createdAtTimestamp > 0 was fetched
\* exactly when no full page ended on a timestamp that a pool outside the
\* pages so far shares.
C9_SkipsExactlyAtSharedBoundary ==
    pc = "resolved" => (AllPositiveFetched <=> NoSharedBoundary)

\* C9's case: no timestamp is shared by more than 999 pools, a full page ended
\* inside a timestamp and pools were skipped.
C9_Witness ==
    /\ pc = "resolved"
    /\ \A t \in 0..MaxTs : created[t] <= 999
    /\ ~NoSharedBoundary
    /\ ~AllPositiveFetched

\* C10: every invocation terminates: the promise of returnTags is eventually
\* resolved or rejected.
C10_Terminates == <>(pc \in {"resolved", "rejected"})

\* C10's case: the number of pools is a positive multiple of 1000, the last
\* request was answered with an empty page and the invocation returned.
C10_Witness ==
    /\ pc = "resolved"
    /\ TableSize(created) - created[0] > 0
    /\ (TableSize(created) - created[0]) % 1000 = 0
    /\ Len(fetched) = TableSize(created) - created[0]
    /\ responses[Len(responses)].size = 0

\* The text begins with the fragment.
StartsWith(text, fragment) == text # <<>> /\ text[1] = fragment

\* The supported chain identifiers, as the specification lists them.
SupportedChains == { <<"1">>, <<"1", "3", "7">>, <<"1", "0">>, <<"4", "2", "2", "2", "0">> }

\* C4: for a chain identifier outside {1, 137, 10, 42220}, numeric or not,
\* the invocation is rejected with the unsupported-chain error, whose message
\* names the identifier and lists the supported ones, and no request is ever
\* issued; for an identifier of the set the URL is resolved and the first
\* request goes to it.
C4_UnsupportedChain ==
    pc # "start" =>
        IF chainId \in SupportedChains
        THEN /\ StartsWith(url, "https://gateway-arbitrum.network.thegraph.com/api/")
             /\ \A i \in 1..Len(url) : url[i] # "[api-key]"
             /\ Len(requests) >= 1
             /\ requests[1].url = url
             /\ ~StartsWith(outcome.message, "Unsupported or invalid Chain ID provided: ")
        ELSE /\ pc = "rejected"
             /\ outcome.kind = "rejected"
             /\ outcome.message =
                    <<"Unsupported or invalid Chain ID provided: ">> \o chainId
                    \o <<". Only the following values are accepted: ",
                         "1", ", ", "1", "0", ", ", "1", "3", "7", ", ",
                         "4", "2", "2", "2", "0">>
             /\ requests = <<>>
             /\ responses = <<>>

\* C4's case: a name that the table inherits from Object.prototype, which
\* only the isNaN test turns down, was rejected before any request.
C4_Witness ==
    /\ pc = "rejected"
    /\ chainId = <<"c", "o", "n", "s", "t", "r", "u", "c", "t", "o", "r">>
    /\ requests = <<>>

\* The value passes the test of the catch block: an object, not null, with a
\* message that is a string.
Structured(e) == e.type = "object" /\ ~e.isNull /\ e.hasMessage /\ e.messageIsString

LastLog == logs[Len(logs)]

\* The error that ended the invocation was logged by the catch block and
\* reached the caller wrapped.
LoggedAndWrapped ==
    /\ logs # <<>>
    /\ LastLog.level = "error"
    /\ \/ StartsWith(outcome.message, "Failed fetching data: ")
       \/ StartsWith(outcome.message, "An unknown error occurred during fetch operation.")

\* C5 as stated: every error that ends an invocation, UnsupportedChain
\* included, is logged and reaches the caller wrapped.
C5_AsStated == pc = "rejected" => LoggedAndWrapped

\* C5, amended: an error raised inside the pagination loop is logged and then
\* reaches the caller wrapped: a value that passes isError is logged with its
\* message and wrapped as "Failed fetching data: ...", which holds the message
\* when the value is an Error; any other value is logged and wrapped with the
\* fixed unknown-error texts.  The request that failed is the last one: none
\* is retried, no cursor is requested twice, and nothing runs afterwards.  The
\* unsupported-chain error of prepareUrl is raised before the loop and
\* reaches the caller as thrown, unlogged.
C5_LoopErrorsLoggedAndWrapped ==
    pc = "rejected" =>
        /\ ~ENABLED Next
        /\ IF requests = <<>>
           THEN /\ logs = <<>>
                /\ StartsWith(outcome.message, "Unsupported or invalid Chain ID provided: ")
           ELSE /\ fetchResult.kind = "throw"
                /\ LoggedAndWrapped
                /\ Len(requests) = Len(responses)
                /\ \A i \in 1..Len(requests) : \A j \in (i + 1)..Len(requests) :
                      requests[i].lastTimestamp < requests[j].lastTimestamp
                /\ IF Structured(fetchResult.error)
                   THEN /\ LastLog.text = <<"An error occurred: ">> \o fetchResult.error.message
                        /\ StartsWith(outcome.message, "Failed fetching data: ")
                        /\ fetchResult.error.isErrorInstance =>
                              outcome.message = <<"Failed fetching data: ", "Error", ": ">>
                                                \o fetchResult.error.message
                   ELSE /\ LastLog.text = <<"An unknown error occurred.">>
                        /\ outcome.message =
                              <<"An unknown error occurred during fetch operation.">>

\* C5's case: after a page was fetched, a response with a non-2xx status ended
\* the invocation, logged and wrapped.
C5_Witness ==
    /\ pc = "rejected"
    /\ Len(requests) >= 2
    /\ responses[Len(responses)].status = 500
    /\ LoggedAndWrapped
    /\ outcome.message = <<"Failed fetching data: ", "Error", ": ", "HTTP error: ", "5", "0", "0">>

\* The text holds a "<" with a ">" somewhere after it.
HtmlLike(text) ==
    \E i \in 1..Len(text) : \E j \in (i + 1)..Len(text) : text[i] = "<" /\ text[j] = ">"

\* At least one of the four token texts of the pool is HTML-like.
Flagged(pool) ==
    \/ HtmlLike(pool.token0.name)
    \/ HtmlLike(pool.token0.symbol)
    \/ HtmlLike(pool.token1.name)
    \/ HtmlLike(pool.token1.symbol)

Unflagged(pool) == ~Flagged(pool)

\* C6: transformPoolsToTags leaves a pool out exactly when one of token0.name,
\* token0.symbol, token1.name, token1.symbol holds an HTML-tag-like substring:
\* the tags returned are, in the order of the input, one per unflagged pool,
\* each with the Contract Address "eip155:<chainId>:<poolId>" of its pool.
C6_ExcludesExactlyFlagged ==
    pc = "transformed" =>
        LET kept == SelectSeq(tfPools, Unflagged)
        IN /\ Len(tfResult.tags) = Len(kept)
           /\ \A i \in 1..Len(kept) :
                 tfResult.tags[i].contractAddress
                    = <<"eip155:">> \o chainId \o <<":", kept[i].id>>

\* C6's case: a pool flagged by a token symbol alone is left out and the pool
\* after it is kept.
C6_Witness ==
    /\ pc = "transformed"
    /\ Len(tfPools) = 2
    /\ ~HtmlLike(tfPools[1].token0.name) /\ ~HtmlLike(tfPools[1].token0.symbol)
    /\ ~HtmlLike(tfPools[1].token1.name) /\ HtmlLike(tfPools[1].token1.symbol)
    /\ Unflagged(tfPools[2])
    /\ Len(tfResult.tags) = 1
    /\ tfResult.tags[1].contractAddress = <<"eip155:", "4", "2", "2", "2", "0", ":", "0x2">>

\* "<symbol0>/<symbol1>" of a pool.
Combined(pool) == pool.token0.symbol \o <<"/">> \o pool.token1.symbol

\* The text ends with "...".
EndsWithEllipsis(text) ==
    /\ Len(text) >= 3
    /\ SubSeq(text, Len(text) - 2, Len(text)) = <<".", ".", ".">>

\* C7 as stated: when the combined symbols exceed 45 characters the Public
\* Name Tag has 45 characters in all and ends with "..."; otherwise the
\* combined symbols are kept unchanged in it.
C7_AsStated ==
    pc = "transformed" =>
        LET kept == SelectSeq(tfPools, Unflagged)
        IN \A i \in 1..Min(Len(kept), Len(tfResult.tags)) :
              IF Len(Combined(kept[i])) > 45
              THEN /\ Len(tfResult.tags[i].publicNameTag) = 45
                   /\ EndsWithEllipsis(tfResult.tags[i].publicNameTag)
              ELSE SubSeq(tfResult.tags[i].publicNameTag, 1, Len(Combined(kept[i])))
                      = Combined(kept[i])

\* C7, amended: the Public Name Tag is the symbol text followed by " Pool".
\* When the combined symbols exceed 45 characters the symbol text is their
\* first 42 characters followed by "...", 45 characters in all (the tag has
\* 50); otherwise the symbol text is the combined symbols unchanged.
C7_SymbolTextTruncated ==
    pc = "transformed" =>
        LET kept == SelectSeq(tfPools, Unflagged)
        IN /\ Len(tfResult.tags) = Len(kept)
           /\ \A i \in 1..Len(kept) :
                 LET tag == tfResult.tags[i].publicNameTag
                     symbolText == SubSeq(tag, 1, Len(tag) - 5)
                 IN /\ Len(tag) >= 5
                    /\ SubSeq(tag, Len(tag) - 4, Len(tag)) = <<" ", "P", "o", "o", "l">>
                    /\ IF Len(Combined(kept[i])) > 45
                       THEN /\ Len(symbolText) = 45
                            /\ EndsWithEllipsis(symbolText)
                            /\ SubSeq(symbolText, 1, 42) = SubSeq(Combined(kept[i]), 1, 42)
                       ELSE symbolText = Combined(kept[i])

\* C7's case: symbols of 22 and 23 characters, 46 with the "/", are cut to
\* 45 characters; symbols of 22 and 22 characters, 45 with the "/", are kept.
C7_Witness ==
    /\ pc = "transformed"
    /\ Len(tfPools) = 2
    /\ Len(tfResult.tags) = 2
    /\ Len(Combined(tfPools[1])) = 46
    /\ Len(tfResult.tags[1].publicNameTag) = 50
    /\ Len(Combined(tfPools[2])) = 45
    /\ Len(tfResult.tags[2].publicNameTag) = 50

LastResponse == responses[Len(responses)]

\* The digits of the statuses explored.
StatusDigits(status) ==
    CASE status = 200 -> <<"2", "0", "0">>
      [] status = 404 -> <<"4", "0", "4">>
      [] status = 500 -> <<"5", "0", "0">>

\* The lines logged for the individual GraphQL errors of the last response,
\* which come right before the line of the catch block.
GraphQLErrorsLogged ==
    LET n == Len(LastResponse.errorMessages)
    IN /\ Len(logs) >= n + 1
       /\ \A i \in 1..n :
             /\ logs[Len(logs) - 1 - n + i].level = "error"
             /\ logs[Len(logs) - 1 - n + i].text
                   = <<"GraphQL error: ">> \o LastResponse.errorMessages[i]

ThrewMessage(message) ==
    /\ fetchResult.kind = "throw"
    /\ fetchResult.error.isErrorInstance
    /\ fetchResult.error.message = message

ReturnedPools ==
    /\ fetchResult.kind = "pools"
    /\ fetchResult.size = LastResponse.size

\* fetchData has dealt with the last response: its status was outside
\* 200..299 or its body was parsed.
LastResponseClassified ==
    /\ responses # <<>>
    /\ LastResponse.fetch = "responded"
    /\ LastResponse.status < 200 \/ LastResponse.status > 299 \/ LastResponse.json = "parsed"

\* C8 as stated: non-2xx status first, then a non-empty errors array, then
\* missing data; a response with an empty errors array and a pools list is a
\* success.
C8_AsStated ==
    LastResponseClassified =>
        IF LastResponse.status < 200 \/ LastResponse.status > 299
        THEN ThrewMessage(<<"HTTP error: ">> \o StatusDigits(LastResponse.status))
        ELSE IF LastResponse.hasErrors /\ LastResponse.errorMessages # <<>>
        THEN /\ ThrewMessage(<<"GraphQL errors occurred: see logs for details.">>)
             /\ GraphQLErrorsLogged
        ELSE IF ~LastResponse.hasData \/ ~LastResponse.hasPools
        THEN ThrewMessage(<<"No pools data found.">>)
        ELSE ReturnedPools

\* C8, amended: fetchData ends in exactly one way, decided in this order: a
\* non-2xx status throws the HTTP error with the status code; otherwise a body
\* with an errors array, empty or not, logs each of its messages and throws
\* the generic GraphQL-errors error; otherwise a body without data or
\* data.pools throws the no-data error; otherwise the pools are returned.
C8_ClassifiedInOrder ==
    LastResponseClassified =>
        IF LastResponse.status < 200 \/ LastResponse.status > 299
        THEN ThrewMessage(<<"HTTP error: ">> \o StatusDigits(LastResponse.status))
        ELSE IF LastResponse.hasErrors
        THEN /\ ThrewMessage(<<"GraphQL errors occurred: see logs for details.">>)
             /\ GraphQLErrorsLogged
        ELSE IF ~LastResponse.hasData \/ ~LastResponse.hasPools
        THEN ThrewMessage(<<"No pools data found.">>)
        ELSE ReturnedPools

\* C8's case: a 200 response whose body holds an empty errors array and a
\* pools list made fetchData throw the GraphQL-errors error.
C8_Witness ==
    /\ LastResponseClassified
    /\ LastResponse.status = 200
    /\ LastResponse.hasErrors
    /\ LastResponse.errorMessages = <<>>
    /\ LastResponse.hasPools
    /\ LastResponse.size > 0
    /\ ThrewMessage(<<"GraphQL errors occurred: see logs for details.">>)
    /\ pc = "rejected"

===========================================================================
